---- MODULE Spec2Model ----
(***************************************************************************)
(* RepoDocAI frontend: the task page (GeneratePage) and its status         *)
(* polling, the landing page (Home) and its submit handler, and the        *)
(* review parser of AICodeReview.                                          *)
(***************************************************************************)
EXTENDS Integers, Sequences, FiniteSets, TLC

(***************************************************************************)
(* Bounds of the model.                                                    *)
(***************************************************************************)
\* status requests one task page may send
MaxRequests == 3

(***************************************************************************)
(* GeneratePage: state.                                                    *)
(***************************************************************************)
VARIABLES
    taskId,          \* params.taskId ("" when the route has none)
    mounted,         \* the page component is mounted
    status,          \* useState<TaskStatus>: [status, progress, message]
    docs,            \* useState<GeneratedDocs | null>
    intervals,       \* ids of the timers made by setInterval and not cleared
    effectInterval,  \* the interval the live effect instance will clear (0: none)
    nextInterval,    \* the id the next setInterval returns
    statusReqs,      \* fetch(/api/status/<taskId>) calls that have not settled
    resultReqs,      \* fetch(/api/result/<taskId>) calls that have not settled
    sentStatus,      \* number of status requests sent so far
    issued,          \* per result request sent so far, the response that caused it
    docsWrites,      \* number of setDocs calls that took effect
    server           \* the task as the backend holds it: [status, progress]

(***************************************************************************)
(* Home (landing page): state.                                             *)
(***************************************************************************)
VARIABLES
    repoUrl,         \* useState(""): the text of the input, a sequence of characters
    urlPieces,       \* number of pieces typed into the input
    loading,         \* useState(false)
    error,           \* useState("")
    route,           \* where the router is: [path, taskId]
    createReqs,      \* POST /api/generate calls that have not settled: their bodies
    sent,            \* number of create requests sent so far
    submits,         \* number of calls of handleSubmit so far
    lastResp         \* the outcome of the create request settled last

(***************************************************************************)
(* AICodeReview: state.                                                    *)
(***************************************************************************)
VARIABLES
    review,          \* the review prop, a sequence of characters
    reviewPieces,    \* number of pieces the review is made of
    parsed           \* the sections the render computed: [title, score, content]

(***************************************************************************)
(* GeneratePage: the documents view.                                       *)
(***************************************************************************)
VARIABLES
    bundle,          \* the result object of the task: field -> absent, empty, value
    activeTab,       \* useState("overview")
    copied,          \* useState(false)
    clipboard,       \* what was written to the clipboard last: the field it came from
    copyTimers,      \* setTimeout(() => setCopied(false), 2000) calls not yet run
    clicks           \* number of calls of copyMarkdown so far

viewVars == <<bundle, activeTab, copied, clipboard, copyTimers, clicks>>

(***************************************************************************)
(* MermaidDiagram: state.                                                  *)
(***************************************************************************)
VARIABLES
    chart,           \* the chart prop
    diagramMounted,  \* the component is mounted: ref.current is the container
    container,       \* ref.current.innerHTML: what was written, and by which run
    renders,         \* the async runs not yet finished: [id, chart, phase, cancelled]
    liveRender,      \* the run started by the live effect instance (0: none)
    chartsGiven      \* number of chart values given so far

(***************************************************************************)
(* ComplexityDashboard: state.                                             *)
(***************************************************************************)
VARIABLES
    languageLines,   \* data.language_distribution: the lines of each language
    bars             \* the width of each language bar, a fraction of 100

complexityVars == <<languageLines, bars>>

(***************************************************************************)
(* HealthScoreGauge: state.                                                *)
(***************************************************************************)
VARIABLES
    healthData,      \* the data prop: [score, grade]
    gauge            \* what the render draws: [color, filled]

gaugeVars == <<healthData, gauge>>

(***************************************************************************)
(* StarfieldBackground: state.                                             *)
(***************************************************************************)
VARIABLES
    animating,       \* the effect is live: frames are requested, resize is heard
    viewport,        \* width and height of the canvas, as one of the window sizes
    starCount,       \* stars.length
    shootingStars,   \* the shootingStars list: [life, maxLife2], maxLife2 = 2 * maxLife
    nextShoot        \* frames until the next shooting star

starVars == <<animating, viewport, starCount, shootingStars, nextShoot>>

mermaidVars == <<chart, diagramMounted, container, renders, liveRender, chartsGiven>>

homeVars == <<repoUrl, urlPieces, loading, error, route, createReqs, sent, submits, lastResp>>

reviewVars == <<review, reviewPieces, parsed>>

pageVars == <<taskId, mounted, status, docs, intervals, effectInterval,
              nextInterval, statusReqs, resultReqs, sentStatus, issued,
              docsWrites, server>>

\* the components rendered inside the documents view and the layout
widgetVars == <<mermaidVars, complexityVars, gaugeVars, starVars>>

\* everything outside these components
appVars == <<pageVars, homeVars, reviewVars, viewVars>>

vars == <<pageVars, homeVars, reviewVars, viewVars, widgetVars>>

NULL == "null"

\* type Status
Status == {"pending", "cloning", "analyzing", "generating", "complete", "error"}

\* STATUS_LABELS is the display text; the server's message is modelled by
\* one text per status
MessageOf(s) ==
    CASE s = "pending"    -> "Starting..."
      [] s = "cloning"    -> "Cloning repository"
      [] s = "analyzing"  -> "Analyzing"
      [] s = "generating" -> "Generating"
      [] s = "complete"   -> "Done"
      [] OTHER            -> "Failed"

IsTerminal(s) == s = "complete" \/ s = "error"

(***************************************************************************)
(* The backend task: pending -> cloning -> analyzing -> generating ->      *)
(* complete, error from any non-terminal state, progress non-decreasing.   *)
(***************************************************************************)
Rank(s) ==
    CASE s = "pending"    -> 0
      [] s = "cloning"    -> 1
      [] s = "analyzing"  -> 2
      [] s = "generating" -> 3
      [] s = "complete"   -> 4
      [] OTHER            -> 5

ProgressValues == {0, 50, 100}

NextStatus(s) ==
    CASE s = "pending"    -> "cloning"
      [] s = "cloning"    -> "analyzing"
      [] s = "analyzing"  -> "generating"
      [] OTHER            -> "complete"

ServerAdvance ==
    /\ taskId # ""
    /\ ~IsTerminal(server.status)
    /\ \E s \in {NextStatus(server.status), "error"} :
       \E p \in ProgressValues :
          /\ p >= server.progress
          /\ s = "error" => p = server.progress
          /\ s = "complete" => p = 100
          /\ server' = [status |-> s, progress |-> p]
    /\ UNCHANGED <<taskId, mounted, status, docs, intervals, effectInterval,
                   nextInterval, statusReqs, resultReqs, sentStatus, issued,
                   docsWrites>>
    /\ UNCHANGED <<homeVars, reviewVars, viewVars, widgetVars>>

(***************************************************************************)
(* GeneratePage: the polling effect.                                       *)
(***************************************************************************)
\* the effect without its early return on a terminal status
EffectCreatesAlways(tid, st, next) == IF tid = "" THEN 0 ELSE next

\* useEffect body for the state (tid, st): the interval it creates (0: none)
EffectCreates(tid, st, next) ==
    IF tid = "" THEN 0
    ELSE IF st = "complete" \/ st = "error" THEN 0
    ELSE next

\* the timers left after the cleanup of the live effect instance
AfterCleanup(ivs, eff) == ivs \ {eff}

PageInit ==
    /\ taskId \in {"", "t1"}
    /\ mounted = TRUE
    /\ status = [status |-> "pending", progress |-> 0, message |-> "Starting..."]
    /\ docs = NULL
    /\ effectInterval = EffectCreates(taskId, "pending", 1)
    /\ intervals = {effectInterval} \ {0}
    /\ nextInterval = IF effectInterval = 0 THEN 1 ELSE 2
    /\ statusReqs = {}
    /\ resultReqs = {}
    /\ sentStatus = 0
    /\ issued = <<>>
    /\ docsWrites = 0
    /\ server = [status |-> "pending", progress |-> 0]

\* the interval fires: the async callback starts and awaits fetch(status)
NoData == [status |-> "pending", progress |-> 0, message |-> ""]

Tick ==
    /\ sentStatus < MaxRequests
    /\ \E i \in intervals :
          statusReqs' = statusReqs \cup
              {[id |-> sentStatus + 1, interval |-> i, phase |-> "sent",
                kind |-> "none", data |-> NoData]}
    /\ sentStatus' = sentStatus + 1
    /\ UNCHANGED <<taskId, mounted, status, docs, intervals, effectInterval,
                   nextInterval, resultReqs, issued, docsWrites, server>>
    /\ UNCHANGED <<homeVars, reviewVars, viewVars, widgetVars>>

\* the backend (or the network) settles a status request: the reply carries
\* the task as it is at that moment, or is non-OK, or the fetch rejects
StatusAnswered ==
    /\ \E r \in statusReqs :
          /\ r.phase = "sent"
          /\ \E k \in {"ok", "notok", "throw"} :
                statusReqs' = (statusReqs \ {r}) \cup
                    {[r EXCEPT !.phase = "answered", !.kind = k,
                               !.data = IF k = "ok"
                                        THEN [status |-> server.status,
                                              progress |-> server.progress,
                                              message |-> MessageOf(server.status)]
                                        ELSE NoData]}
    /\ UNCHANGED <<taskId, mounted, status, docs, intervals, effectInterval,
                   nextInterval, resultReqs, sentStatus, issued, docsWrites,
                   server>>
    /\ UNCHANGED <<homeVars, reviewVars, viewVars, widgetVars>>

\* setStatus(data): the state the next render shows
SetStatus(cur, data) == data

\* a slip of the completion test: every status but error fetches the result
FetchesResultUnlessError(kind, data) == kind = "ok" /\ data.status # "error"

\* if (data.status === "complete") after an OK response: fetch the result
FetchesResult(kind, data) == kind = "ok" /\ data.status = "complete"

\* a callback without "if (!res.ok) return"
HandlesAnyResponse(kind) == kind # "throw"

\* the replies the callback acts on: a rejected fetch goes to the empty
\* catch, a non-OK response returns
Handles(kind) == kind = "ok"

\* the callback resumes with the reply of its status request; the render
\* that setStatus causes and the effect of that render are part of the step
StatusSettled ==
    /\ \E r \in statusReqs :
          /\ r.phase = "answered"
          /\ statusReqs' = statusReqs \ {r}
          /\ IF ~Handles(r.kind)
             THEN UNCHANGED <<status, intervals, effectInterval, nextInterval,
                              resultReqs, issued>>
             ELSE LET shown   == IF mounted THEN SetStatus(status, r.data) ELSE status
                      fetches == FetchesResult(r.kind, r.data)
                      cleared == IF r.data.status = "complete"
                                 THEN intervals \ {r.interval} ELSE intervals
                      rerun   == mounted /\ shown.status # status.status
                      created == EffectCreates(taskId, shown.status, nextInterval)
                  IN  /\ status' = shown
                      /\ IF rerun
                         THEN /\ intervals' = AfterCleanup(cleared, effectInterval)
                                                 \cup ({created} \ {0})
                              /\ effectInterval' = created
                              /\ nextInterval' = IF created = 0 THEN nextInterval
                                                 ELSE nextInterval + 1
                         ELSE /\ intervals' = cleared
                              /\ UNCHANGED <<effectInterval, nextInterval>>
                      /\ IF fetches
                         THEN /\ resultReqs' = resultReqs \cup {Len(issued) + 1}
                              /\ issued' = Append(issued, [kind |-> r.kind,
                                                           status |-> r.data.status])
                         ELSE UNCHANGED <<resultReqs, issued>>
    /\ UNCHANGED <<taskId, mounted, docs, sentStatus, docsWrites, server>>
    /\ UNCHANGED <<homeVars, reviewVars, viewVars, widgetVars>>

Bundle == "bundle"

\* the result request settles: OK with the bundle (only once the task is
\* complete), non-OK, or the fetch rejects
ResultSettled ==
    /\ \E q \in resultReqs :
          /\ resultReqs' = resultReqs \ {q}
          /\ \E k \in {"ok", "notok", "throw"} :
                /\ k = "ok" => server.status = "complete"
                /\ IF k = "ok" /\ mounted
                   THEN /\ docs' = Bundle
                        /\ docsWrites' = docsWrites + 1
                   ELSE UNCHANGED <<docs, docsWrites>>
    /\ UNCHANGED <<taskId, mounted, status, intervals, effectInterval,
                   nextInterval, statusReqs, sentStatus, issued, server>>
    /\ UNCHANGED <<homeVars, reviewVars, viewVars, widgetVars>>

\* the page unmounts: React runs the cleanup of the live effect instance
Unmount ==
    /\ mounted
    /\ mounted' = FALSE
    /\ intervals' = AfterCleanup(intervals, effectInterval)
    /\ effectInterval' = 0
    /\ UNCHANGED <<taskId, status, docs, nextInterval, statusReqs, resultReqs,
                   sentStatus, issued, docsWrites, server>>
    /\ UNCHANGED <<homeVars, reviewVars, viewVars, widgetVars>>

(***************************************************************************)
(* GeneratePage: what a render shows.                                      *)
(***************************************************************************)
\* a render that looks at docs before it looks at the status
GeneratePageViewDocsFirst(st, d) ==
    IF d # NULL
    THEN [view |-> "documents", text |-> "", fromDocs |-> TRUE]
    ELSE IF st.status # "complete" /\ st.status # "error"
    THEN [view |-> "progress", text |-> st.message, fromDocs |-> FALSE]
    ELSE IF st.status = "error"
    THEN [view |-> "error", text |-> st.message, fromDocs |-> FALSE]
    ELSE [view |-> "loading", text |-> "Loading results...", fromDocs |-> FALSE]

\* the chain of early returns of the component body
GeneratePageView(st, d) ==
    IF st.status # "complete" /\ st.status # "error"
    THEN [view |-> "progress", text |-> st.message, fromDocs |-> FALSE]
    ELSE IF st.status = "error"
    THEN [view |-> "error", text |-> st.message, fromDocs |-> FALSE]
    ELSE IF d = NULL
    THEN [view |-> "loading", text |-> "Loading results...", fromDocs |-> FALSE]
    ELSE [view |-> "documents", text |-> "", fromDocs |-> TRUE]

\* the steps of the indicator, in the order the progress view lists them
StepOrder == <<"cloning", "analyzing", "generating", "complete">>

\* order.indexOf(x): zero-based, -1 when x is not in the list
IndexOf(order, x) ==
    LET at == {i \in 1..Len(order) : order[i] = x}
    IN  IF at = {} THEN -1 ELSE (CHOOSE i \in at : \A j \in at : i <= j) - 1

\* an indicator that counts the current step as done
StepMarkInclusive(st, step) ==
    LET currentIdx == IndexOf(StepOrder, st)
        stepIdx    == IndexOf(StepOrder, step)
    IN  IF stepIdx <= currentIdx THEN "done"
        ELSE IF stepIdx = currentIdx THEN "current"
        ELSE "pending"

\* isDone / isCurrent of one step while the displayed status is st
StepMark(st, step) ==
    LET currentIdx == IndexOf(StepOrder, st)
        stepIdx    == IndexOf(StepOrder, step)
    IN  IF stepIdx < currentIdx THEN "done"
        ELSE IF stepIdx = currentIdx THEN "current"
        ELSE "pending"

PageNext ==
    \/ Tick
    \/ StatusAnswered
    \/ StatusSettled
    \/ ResultSettled
    \/ ServerAdvance
    \/ Unmount

(***************************************************************************)
(* GeneratePage: properties.                                               *)
(***************************************************************************)
\* a step of the backend's state machine, or no step
Forward(a, b) ==
    \/ a = b
    \/ ~IsTerminal(a) /\ (b = "error" \/ Rank(b) > Rank(a))

\* the assumption of C1 and C2: every OK reply in flight carries a state the
\* backend has been in, and the backend moves forward only
ServerForward ==
    [][Forward(server.status, server'.status)
         /\ server'.progress >= server.progress]_vars

\* C1: the displayed status never moves backward and the displayed progress
\* never decreases, whatever the order in which overlapping polls settle.
C1_DisplayNeverMovesBackward ==
    [][Forward(status.status, status'.status)
         /\ status'.progress >= status.progress]_vars

\* C2: once the displayed status is complete or error, it never changes again.
C2_TerminalOnce ==
    [][IsTerminal(status.status) => status'.status = status.status]_vars

\* C3: a result request is issued only in the step that handles an OK status
\* response whose status is complete.
C3_ResultOnlyAfterComplete ==
    [][(Len(issued') > Len(issued) \/ resultReqs' \ resultReqs # {})
          => \E r \in statusReqs \ statusReqs' :
                /\ r.phase = "answered"
                /\ r.kind = "ok"
                /\ r.data.status = "complete"]_vars

\* a result request is out while other polls were answered otherwise
C3_Witness ==
    /\ Len(issued) > 0
    /\ resultReqs # {}
    /\ sentStatus > 1

C12_OneOfFourViews ==
    mounted =>
       LET v == GeneratePageView(status, docs)
       IN  /\ v.view \in {"progress", "error", "loading", "documents"}
           /\ v.view = "progress" <=> ~IsTerminal(status.status)
           /\ v.view = "error" <=> status.status = "error"
           /\ v.view = "error" => (v.text = status.message /\ ~v.fromDocs)
           /\ v.view = "loading" <=> (status.status = "complete" /\ docs = NULL)
           /\ v.view = "documents" <=> (status.status = "complete" /\ docs # NULL)

\* docs is loaded while the displayed status is not terminal
C12_Witness ==
    /\ mounted
    /\ docs # NULL
    /\ ~IsTerminal(status.status)
    /\ GeneratePageView(status, docs).view = "progress"

\* C13: a status poll that is rejected or answered non-OK changes neither
\* the displayed status nor docs and leaves the polling interval running.
C13_FailedPollChangesNothing ==
    [][\A r \in statusReqs \ statusReqs' :
          (r.phase = "answered" /\ r.kind # "ok")
             => /\ status' = status
                /\ docs' = docs
                /\ intervals' = intervals
                /\ effectInterval' = effectInterval
                /\ GeneratePageView(status', docs').view
                      = GeneratePageView(status, docs).view]_vars

\* the callback of a failed poll resumes while a running stage is displayed
\* and the backend has already finished
C13_Witness ==
    /\ mounted
    /\ status.status = "generating"
    /\ server.status = "complete"
    /\ effectInterval \in intervals
    /\ \E r \in statusReqs :
          /\ r.phase = "answered"
          /\ r.kind \in {"notok", "throw"}
          /\ r.interval = effectInterval

\* C17: in the progress view the steps before the displayed status are done,
\* the displayed status is current, the later steps are pending; for
\* pending nothing is done or current; "complete" is never done or current.
C17_StepIndicator ==
    (mounted /\ ~IsTerminal(status.status)) =>
       LET s == status.status
       IN  /\ \A i \in 1..Len(StepOrder) :
                LET step == StepOrder[i]
                IN  /\ StepMark(s, step) = "done"
                       <=> (s # "pending" /\ Rank(step) < Rank(s))
                    /\ StepMark(s, step) = "current" <=> step = s
                    /\ StepMark(s, step) = "pending"
                       <=> (s = "pending" \/ Rank(step) > Rank(s))
           /\ StepMark(s, "complete") = "pending"

\* the last running stage is displayed
C17_Witness ==
    /\ mounted
    /\ status.status = "generating"
    /\ StepMark(status.status, "analyzing") = "done"

\* C18: when the page has come to rest on the status complete (no timer, no
\* request left), docs is loaded.
C18_NoStuckLoading ==
    (/\ mounted
     /\ status.status = "complete"
     /\ intervals = {}
     /\ statusReqs = {}
     /\ resultReqs = {})
       => docs # NULL

\* C19: docs is non-null only while the displayed status is complete.
C19_DocsOnlyWhenComplete ==
    (mounted /\ docs # NULL) => status.status = "complete"

\* C20: the reply to a status request of an effect instance whose cleanup
\* has run changes neither status nor docs and starts no result request.
C20_NoEffectAfterCleanup ==
    [][\A r \in statusReqs \ statusReqs' :
          (r.phase = "answered" /\ r.interval # effectInterval)
             => /\ status' = status
                /\ docs' = docs
                /\ issued' = issued
                /\ resultReqs' = resultReqs]_vars

\* C21: for one task page at most one result request is issued and docs is
\* assigned at most once.
C21_OneResultRequest ==
    /\ Len(issued) <= 1
    /\ docsWrites <= 1

(***************************************************************************)
(* GeneratePage: the documents view, its tabs and the copy button.         *)
(***************************************************************************)
\* TABS, in order
Tabs ==
    <<"overview", "health", "diagrams", "complexity", "vulns", "review",
      "techstack", "setup", "badges", "contributing", "api", "sections",
      "markdown">>

TabIds == {Tabs[i] : i \in 1..Len(Tabs)}

\* the field of GeneratedDocs a tab shows
FieldOf(tab) ==
    CASE tab = "overview"     -> "overview"
      [] tab = "health"       -> "health_score"
      [] tab = "diagrams"     -> "diagrams"
      [] tab = "complexity"   -> "complexity_metrics"
      [] tab = "vulns"        -> "vulnerability_scan"
      [] tab = "review"       -> "ai_code_review"
      [] tab = "techstack"    -> "tech_stack"
      [] tab = "setup"        -> "setup_guide"
      [] tab = "badges"       -> "badges"
      [] tab = "contributing" -> "contributing_md"
      [] tab = "api"          -> "api_docs"
      [] tab = "sections"     -> "sections"
      [] OTHER                -> "full_markdown"

\* interface GeneratedDocs: the fields by type
StringFields ==
    {"overview", "tech_stack", "setup_guide", "api_docs", "full_markdown",
     "contributing_md", "ai_code_review"}

ArrayFields == {"sections", "diagrams", "badges"}

ObjectFields == {"health_score", "vulnerability_scan", "complexity_metrics"}

Fields == StringFields \cup ArrayFields \cup ObjectFields

\* the fields declared with "?" or "| null"
OptionalFields ==
    {"api_docs", "full_markdown", "health_score", "vulnerability_scan",
     "badges", "complexity_metrics", "contributing_md", "ai_code_review"}

\* how a field can fall short of a value: a string is "" or missing, an
\* array is [] or missing, an object is missing; only an optional field is
\* missing
Shortfalls(f) ==
    (IF f \in OptionalFields THEN {"absent"} ELSE {})
       \cup (IF f \in ObjectFields THEN {} ELSE {"empty"})

\* at most this many fields of one bundle fall short of a value
MaxDegraded == 1

CompleteBundle == [f \in Fields |-> "value"]

Bundles ==
    UNION {{[f \in Fields |-> IF f \in S THEN g[f] ELSE "value"] :
               g \in {h \in [S -> {"absent", "empty"}] :
                         \A f \in S : h[f] \in Shortfalls(f)}} :
           S \in {T \in SUBSET Fields : Cardinality(T) <= MaxDegraded}}

\* JavaScript truthiness of a field: "" and a missing field are falsy, an
\* empty array is truthy
Truthy(b, f) ==
    IF f \in StringFields THEN b[f] = "value" ELSE b[f] # "absent"

\* DocViewer: what it renders for a content prop
DocViewer(given) ==
    IF ~given
    THEN [kind |-> "placeholder", text |-> "No content available."]
    ELSE [kind |-> "content", text |-> ""]

\* <DocViewer content={docs.field || fallback} />
DocViewerOr(b, f, fallback) ==
    IF Truthy(b, f) THEN DocViewer(TRUE)
    ELSE [kind |-> "placeholder", text |-> fallback]

\* {activeTab === tab && docs.field && (...)}: nothing for a falsy field
Guarded(b, f) ==
    IF Truthy(b, f) THEN [kind |-> "content", text |-> ""]
    ELSE [kind |-> "nothing", text |-> ""]

\* {docs.field.map(...)} inside a container: no child for an empty array
Mapped(b, f) ==
    IF b[f] = "value" THEN [kind |-> "content", text |-> ""]
    ELSE [kind |-> "nothing", text |-> ""]

\* the content area of the documents view for the active tab
Panel(tab, b) ==
    CASE tab = "overview"     -> DocViewer(Truthy(b, "overview"))
      [] tab = "health"       -> Guarded(b, "health_score")
      [] tab = "diagrams"     -> Mapped(b, "diagrams")
      [] tab = "complexity"   -> Guarded(b, "complexity_metrics")
      [] tab = "vulns"        -> Guarded(b, "vulnerability_scan")
      [] tab = "review"       -> Guarded(b, "ai_code_review")
      [] tab = "techstack"    ->
            DocViewerOr(b, "tech_stack", "No tech stack information generated.")
      [] tab = "setup"        ->
            DocViewerOr(b, "setup_guide", "No setup guide generated.")
      [] tab = "badges"       -> Guarded(b, "badges")
      [] tab = "contributing" -> Guarded(b, "contributing_md")
      [] tab = "api"          ->
            DocViewerOr(b, "api_docs",
                        "No API documentation detected for this project.")
      [] tab = "sections"     -> Mapped(b, "sections")
      [] OTHER                ->
            IF Truthy(b, "full_markdown") THEN [kind |-> "content", text |-> ""]
            ELSE [kind |-> "placeholder", text |-> "Markdown not available."]

\* the documents view is on screen: its buttons can be pressed
DocumentsShown ==
    mounted /\ GeneratePageView(status, docs).view = "documents"

\* before anything is copied the clipboard holds nothing of this page
ViewInit ==
    /\ activeTab = "overview"
    /\ copied = FALSE
    /\ clipboard = "nothing"
    /\ copyTimers = 0
    /\ clicks = 0

\* onClick={() => setActiveTab(tab.id)}
SetActiveTab ==
    /\ DocumentsShown
    /\ \E t \in TabIds : activeTab' = t
    /\ UNCHANGED <<bundle, copied, clipboard, copyTimers, clicks>>
    /\ UNCHANGED <<pageVars, homeVars, reviewVars, widgetVars>>

\* the "Copy Markdown" button is pressed at most this many times
MaxClicks == 2

\* a copy that only asks for docs
CanCopyAnyDocs(d, b) == d # NULL

\* if (docs?.full_markdown)
CanCopy(d, b) == d # NULL /\ Truthy(b, "full_markdown")

\* copyMarkdown, from the header button or the button of the markdown tab
copyMarkdown ==
    /\ DocumentsShown
    /\ clicks < MaxClicks
    /\ clicks' = clicks + 1
    /\ IF CanCopy(docs, bundle)
       THEN /\ clipboard' = "full_markdown"
            /\ copied' = TRUE
            /\ copyTimers' = copyTimers + 1
       ELSE UNCHANGED <<clipboard, copied, copyTimers>>
    /\ UNCHANGED <<bundle, activeTab>>
    /\ UNCHANGED <<pageVars, homeVars, reviewVars, widgetVars>>

\* a timer set by copyMarkdown runs: setCopied(false)
CopyTimeout ==
    /\ copyTimers > 0
    /\ copyTimers' = copyTimers - 1
    /\ copied' = FALSE
    /\ UNCHANGED <<bundle, activeTab, clipboard, clicks>>
    /\ UNCHANGED <<pageVars, homeVars, reviewVars, widgetVars>>

\* the "Copy" button of the contributing tab
CopyContributing ==
    /\ DocumentsShown
    /\ activeTab = "contributing"
    /\ Panel(activeTab, bundle).kind = "content"
    /\ clipboard' = "contributing_md"
    /\ UNCHANGED <<bundle, activeTab, copied, copyTimers, clicks>>
    /\ UNCHANGED <<pageVars, homeVars, reviewVars, widgetVars>>

\* BadgeWall: the "Copy All Badges" button
CopyBadges ==
    /\ DocumentsShown
    /\ activeTab = "badges"
    /\ Panel(activeTab, bundle).kind = "content"
    /\ clipboard' = "badges"
    /\ UNCHANGED <<bundle, activeTab, copied, copyTimers, clicks>>
    /\ UNCHANGED <<pageVars, homeVars, reviewVars, widgetVars>>

ViewNext ==
    \/ SetActiveTab
    \/ copyMarkdown
    \/ CopyTimeout
    \/ CopyContributing
    \/ CopyBadges

(***************************************************************************)
(* MermaidDiagram: the render effect.                                      *)
(***************************************************************************)
\* chart values: the empty chart and two diagrams
Charts == {"", "graph A", "graph B"}

\* chart values given to one component
MaxCharts == 3

\* the container before anything is written into it
NoOutput == [kind |-> "none", chart |-> "", by |-> 0]

\* the run the effect starts for the chart c: none for an empty chart
StartedRuns(c, id) ==
    IF c = "" THEN {}
    ELSE {[id |-> id, chart |-> c, phase |-> "importing", cancelled |-> FALSE]}

\* the cleanup of the live effect instance: cancelled = true
Cancel(rs, live) ==
    {IF r.id = live THEN [r EXCEPT !.cancelled = TRUE] ELSE r : r \in rs}

MermaidInit ==
    /\ chart \in Charts
    /\ diagramMounted = TRUE
    /\ container = NoOutput
    /\ renders = StartedRuns(chart, 1)
    /\ liveRender = IF chart = "" THEN 0 ELSE 1
    /\ chartsGiven = 1

\* the parent renders the component with another chart: cleanup, then the
\* effect for the new value
SetChart ==
    /\ diagramMounted
    /\ chartsGiven < MaxCharts
    /\ \E c \in Charts \ {chart} :
          /\ chart' = c
          /\ renders' = Cancel(renders, liveRender)
                           \cup StartedRuns(c, chartsGiven + 1)
          /\ liveRender' = IF c = "" THEN 0 ELSE chartsGiven + 1
    /\ chartsGiven' = chartsGiven + 1
    /\ UNCHANGED <<diagramMounted, container>>
    /\ UNCHANGED <<appVars, complexityVars, gaugeVars, starVars>>

\* a guard that forgets the cancelled flag
MayWriteIfMounted(isMounted, cancelled) == isMounted

\* if (ref.current && !cancelled)
MayWrite(isMounted, cancelled) == isMounted /\ ~cancelled

\* the catch block: the error block with the source of the run's chart
ErrorBlock(r) == [kind |-> "error", chart |-> r.chart, by |-> r.id]

\* await import("mermaid") settles: the run goes on to mermaid.render unless
\* it was cancelled, or the import rejects and the catch block runs
ImportSettled ==
    /\ \E r \in renders :
          /\ r.phase = "importing"
          /\ \E ok \in BOOLEAN :
                IF ok
                THEN /\ renders' = IF r.cancelled THEN renders \ {r}
                                   ELSE (renders \ {r}) \cup
                                           {[r EXCEPT !.phase = "rendering"]}
                     /\ UNCHANGED container
                ELSE /\ renders' = renders \ {r}
                     /\ container' = IF MayWrite(diagramMounted, r.cancelled)
                                     THEN ErrorBlock(r) ELSE container
    /\ UNCHANGED <<chart, diagramMounted, liveRender, chartsGiven>>
    /\ UNCHANGED <<appVars, complexityVars, gaugeVars, starVars>>

\* await mermaid.render(...) settles: the SVG, or the error block
RenderSettled ==
    /\ \E r \in renders :
          /\ r.phase = "rendering"
          /\ renders' = renders \ {r}
          /\ \E ok \in BOOLEAN :
                container' =
                   IF ~MayWrite(diagramMounted, r.cancelled) THEN container
                   ELSE IF ok THEN [kind |-> "svg", chart |-> r.chart, by |-> r.id]
                   ELSE ErrorBlock(r)
    /\ UNCHANGED <<chart, diagramMounted, liveRender, chartsGiven>>
    /\ UNCHANGED <<appVars, complexityVars, gaugeVars, starVars>>

\* the component unmounts: cleanup, and ref.current becomes null
UnmountDiagram ==
    /\ diagramMounted
    /\ diagramMounted' = FALSE
    /\ renders' = Cancel(renders, liveRender)
    /\ liveRender' = 0
    /\ UNCHANGED <<chart, container, chartsGiven>>
    /\ UNCHANGED <<appVars, complexityVars, gaugeVars, starVars>>

MermaidNext ==
    \/ SetChart
    \/ ImportSettled
    \/ RenderSettled
    \/ UnmountDiagram

\* C23: a run started for an earlier chart value writes nothing into the
\* container after the chart prop has changed or the component has
\* unmounted; once all runs have finished for a non-empty chart, the
\* container holds the output of the run for that chart.
C23_NoStaleDiagram ==
    /\ [][container' # container =>
             /\ diagramMounted
             /\ container'.by = liveRender
             /\ container'.chart = chart
             /\ \E r \in renders \ renders' : r.id = container'.by]_vars
    /\ [](( diagramMounted /\ chart # "" /\ renders = {}) =>
             (container.chart = chart /\ container.by = liveRender))

\* the third chart value given is the one on display, all runs finished
C23_Witness ==
    /\ diagramMounted
    /\ chartsGiven = 3
    /\ renders = {}
    /\ container.kind = "svg"
    /\ container.by = 3

(***************************************************************************)
(* ComplexityDashboard: the language bars.                                 *)
(***************************************************************************)
\* languages in one distribution, and the largest line count
MaxLanguages == 3

MaxLineCount == 4

\* Math.max(...lines) floored at 0 instead of 1
maxLinesFromZero(lines) ==
    LET counts == {lines[i] : i \in 1..Len(lines)} \cup {0}
    IN  CHOOSE m \in counts : \A c \in counts : c <= m

\* Math.max(...data.language_distribution.map((l) => l.lines), 1)
maxLines(lines) ==
    LET counts == {lines[i] : i \in 1..Len(lines)} \cup {1}
    IN  CHOOSE m \in counts : \A c \in counts : c <= m

\* (l.lines / maxLines) * 100, kept as the fraction num / den
BarWidth(count, divisor) == [num |-> count * 100, den |-> divisor]

\* the bars of one render
LanguageBars(lines) ==
    [i \in 1..Len(lines) |-> BarWidth(lines[i], maxLines(lines))]

ComplexityInit ==
    /\ languageLines = <<>>
    /\ bars = <<>>

\* the dashboard is rendered with a distribution one language longer
AddLanguage ==
    /\ Len(languageLines) < MaxLanguages
    /\ \E n \in 0..MaxLineCount :
          /\ languageLines' = Append(languageLines, n)
          /\ bars' = LanguageBars(Append(languageLines, n))
    /\ UNCHANGED <<appVars, mermaidVars, gaugeVars, starVars>>

\* the dashboard is rendered for a repository without recognised languages
ClearLanguages ==
    /\ languageLines # <<>>
    /\ languageLines' = <<>>
    /\ bars' = LanguageBars(<<>>)
    /\ UNCHANGED <<appVars, mermaidVars, gaugeVars, starVars>>

ComplexityNext ==
    \/ AddLanguage
    \/ ClearLanguages

\* C25: maxLines is at least 1, also for an empty list and for all-zero
\* counts; every bar width lies between 0 and 100; a language with the
\* largest positive count has width 100.
C25_BarWidths ==
    /\ maxLines(languageLines) >= 1
    /\ Len(bars) = Len(languageLines)
    /\ \A i \in 1..Len(bars) :
          /\ bars[i].den >= 1
          /\ 0 <= bars[i].num
          /\ bars[i].num <= 100 * bars[i].den
          /\ (/\ languageLines[i] > 0
              /\ \A j \in 1..Len(languageLines) :
                    languageLines[j] <= languageLines[i])
                => bars[i].num = 100 * bars[i].den

\* a language without lines next to the largest one
C25_Witness ==
    /\ Len(languageLines) = 3
    /\ languageLines[1] = 0
    /\ languageLines[2] = MaxLineCount
    /\ bars[2].num = 100 * bars[2].den
    /\ bars[1].num = 0

(***************************************************************************)
(* HealthScoreGauge: the colour of the gauge.                              *)
(***************************************************************************)
\* const gradeColors: Record<string, string> = {...}: the own properties
gradeColors ==
    [g \in {"A+", "A", "B", "C", "D", "F"} |->
        CASE g = "A+" -> "#00ff88"
          [] g = "A"  -> "#22c55e"
          [] g = "B"  -> "#84cc16"
          [] g = "C"  -> "#eab308"
          [] g = "D"  -> "#f97316"
          [] OTHER    -> "#ef4444"]

\* gradeColors is an object literal: a key that is not its own is looked up
\* in Object.prototype
ObjectPrototypeKeys ==
    {"constructor", "toString", "valueOf", "hasOwnProperty", "__proto__"}

\* gradeColors[key]: the own value, an inherited member (a function or an
\* object, never a colour string), or undefined
Lookup(key) ==
    IF key \in DOMAIN gradeColors THEN gradeColors[key]
    ELSE IF key \in ObjectPrototypeKeys THEN "inherited member"
    ELSE "undefined"

\* const color = gradeColors[data.grade] || "#888"
GradeColor(grade) ==
    IF Lookup(grade) = "undefined" THEN "#888" ELSE Lookup(grade)

\* grade values: the six grades, other texts, a missing grade, and names
\* that every object inherits
GradeInputs ==
    {"A+", "A", "B", "C", "D", "F", "E", "a", "", "missing",
     "constructor", "toString", "__proto__"}

\* scores out of 100
ScoreInputs == {0, 10, 20, 30, 40, 50, 60, 70, 80, 90, 100}

\* the render: the colour and the part of the circle that is filled
HealthScoreGauge(data) ==
    [color |-> GradeColor(data.grade), filled |-> data.score]

GaugeInit ==
    /\ healthData = [score |-> 0, grade |-> "F"]
    /\ gauge = HealthScoreGauge(healthData)

\* the health tab renders the gauge with the health score of another result
SetHealthData ==
    /\ \E sc \in ScoreInputs : \E g \in GradeInputs :
          /\ healthData' = [score |-> sc, grade |-> g]
          /\ gauge' = HealthScoreGauge([score |-> sc, grade |-> g])
    /\ UNCHANGED <<appVars, mermaidVars, complexityVars, starVars>>

GaugeNext == SetHealthData

\* C26: each of the six grades has its own colour, pairwise distinct, and
\* every other grade value gets the neutral colour "#888".
C26_GradeColours ==
    /\ \A g, h \in DOMAIN gradeColors :
          g # h => gradeColors[g] # gradeColors[h]
    /\ healthData.grade \in DOMAIN gradeColors
          => gauge.color = gradeColors[healthData.grade]
    /\ healthData.grade \notin DOMAIN gradeColors => gauge.color = "#888"

(***************************************************************************)
(* StarfieldBackground: the animation loop. The frame counter is only      *)
(* counted, nothing reads it, and it is left out.                          *)
(***************************************************************************)
STAR_COUNT == 250

\* window sizes
Viewports == {"small", "large"}

\* maxLife = Math.random() * 40 + 30, a real in [30, 70), in half frames:
\* the least value, a value between two frames, and one just under 70
MaxLifeChoices == {60, 81, 139}

\* spawns that can follow each other after 40 frames
NextShootChoicesSoon == {40, 150, 299}

\* Math.floor(Math.random() * 200) + 100: 100..299
NextShootChoices == {100, 150, 299}

StarfieldInit ==
    /\ animating = TRUE
    /\ viewport \in Viewports
    /\ starCount = STAR_COUNT
    /\ shootingStars = <<>>
    /\ nextShoot = 120

\* the loop over shootingStars of one frame: life++, then the star is
\* spliced out when its opacity is used up or it has left the canvas
\* (gone[i]), which depends on its random position, angle and speed
AgeAndRemove(list, gone) ==
    LET aged == [i \in 1..Len(list) |-> [list[i] EXCEPT !.life = @ + 1]]
        kept == {i \in 1..Len(list) :
                    ~(2 * aged[i].life >= aged[i].maxLife2 \/ gone[i])}
        Pick[i \in 0..Len(list)] ==
            IF i = 0 THEN <<>>
            ELSE IF i \in kept THEN Append(Pick[i - 1], aged[i])
            ELSE Pick[i - 1]
    IN  Pick[Len(list)]

\* draw(): one animation frame
Draw ==
    /\ animating
    /\ \E spawnLife \in MaxLifeChoices :
       \E again \in NextShootChoices :
          LET due     == nextShoot - 1 <= 0
              spawned == IF due
                         THEN Append(shootingStars,
                                     [life |-> 0, maxLife2 |-> spawnLife])
                         ELSE shootingStars
          IN  /\ nextShoot' = IF due THEN again ELSE nextShoot - 1
              /\ \E gone \in [1..Len(spawned) -> BOOLEAN] :
                    shootingStars' = AgeAndRemove(spawned, gone)
    /\ UNCHANGED <<animating, viewport, starCount>>
    /\ UNCHANGED <<appVars, mermaidVars, complexityVars, gaugeVars>>

\* onResize: the canvas takes the window size, every star gets a new place
OnResize ==
    /\ animating
    /\ \E v \in Viewports \ {viewport} : viewport' = v
    /\ UNCHANGED <<animating, starCount, shootingStars, nextShoot>>
    /\ UNCHANGED <<appVars, mermaidVars, complexityVars, gaugeVars>>

\* the effect cleanup: cancelAnimationFrame, removeEventListener
StopStarfield ==
    /\ animating
    /\ animating' = FALSE
    /\ UNCHANGED <<viewport, starCount, shootingStars, nextShoot>>
    /\ UNCHANGED <<appVars, mermaidVars, complexityVars, gaugeVars>>

StarfieldNext ==
    \/ Draw
    \/ OnResize
    \/ StopStarfield

\* C27: after every frame shootingStars holds at most one element: a star
\* is gone at the latest 70 frames after its spawn and the next spawn is at
\* least 100 frames after the last; the number of stars stays 250.
C27_OneShootingStar ==
    /\ Len(shootingStars) <= 1
    /\ \A i \in 1..Len(shootingStars) :
          /\ shootingStars[i].life < 70
          /\ shootingStars[i].maxLife2 < 2 * 70
          /\ nextShoot + shootingStars[i].life > 100
    /\ starCount = 250

\* the longest-lived star in its last frame, after a resize
C27_Witness ==
    /\ Len(shootingStars) = 1
    /\ shootingStars[1].life = 69
    /\ nextShoot = 100 - 68
    /\ viewport = "large"

(***************************************************************************)
(* Text: a string is a sequence of one-character strings.                  *)
(***************************************************************************)
\* white space as String.prototype.trim and the regex class \s see it
IsSpace(c) == c \in {" ", "\n", "\t"}

IsDigit(c) == c \in {"0", "1", "2", "3", "4", "5", "6", "7", "8", "9"}

SetMin(S) == CHOOSE x \in S : \A y \in S : x <= y

SetMax(S) == CHOOSE x \in S : \A y \in S : x >= y

\* s.trim()
Trim(s) ==
    LET keep == {i \in 1..Len(s) : ~IsSpace(s[i])}
    IN  IF keep = {} THEN <<>> ELSE SubSeq(s, SetMin(keep), SetMax(keep))

\* the text d stands in s at position i
OccursAt(s, d, i) ==
    /\ i >= 1
    /\ i + Len(d) - 1 <= Len(s)
    /\ SubSeq(s, i, i + Len(d) - 1) = d

\* s.includes(d)
Includes(s, d) == \E i \in 1..(Len(s) + 1) : OccursAt(s, d, i)

\* s.split(d) for a non-empty separator d
RECURSIVE Split(_, _)
Split(s, d) ==
    LET hits == {i \in 1..Len(s) : OccursAt(s, d, i)}
    IN  IF hits = {} THEN <<s>>
        ELSE LET i == SetMin(hits)
             IN  <<SubSeq(s, 1, i - 1)>> \o Split(SubSeq(s, i + Len(d), Len(s)), d)

(***************************************************************************)
(* Home: handleSubmit and the create request.                              *)
(***************************************************************************)
\* pieces the user types, and how many of them make up one input
MaxUrlPieces == 3

GithubCom == <<"g", "i", "t", "h", "u", "b", ".", "c", "o", "m">>

UrlPieces ==
    {<<" ">>, <<"x">>, <<"g", "i", "t", "h", "u", "b">>, <<".", "c", "o", "m">>}

\* create requests one landing page may send
MaxSubmits == 2

TaskIds == {"t1", "t2"}

\* err.message of a rejected fetch or of a failed res.json()
ThrownMessages == {"", "Failed to fetch"}

ValidationError == "Please enter a valid GitHub repository URL"

HomeRoute == [path |-> "/", taskId |-> ""]

NoResp == [kind |-> "none", taskId |-> "", message |-> ""]

HomeInit ==
    /\ repoUrl = <<>>
    /\ urlPieces = 0
    /\ loading = FALSE
    /\ error = ""
    /\ route = HomeRoute
    /\ createReqs = {}
    /\ sent = 0
    /\ submits = 0
    /\ lastResp = NoResp

\* controls that are never disabled
DisabledNever(isLoading) == FALSE

\* disabled={loading} of the input and of the submit button
Disabled(isLoading) == isLoading

\* onChange of the input, which is disabled while loading: the user types
\* one more piece or clears the field
SetRepoUrl ==
    /\ route = HomeRoute
    /\ ~Disabled(loading)
    /\ \/ /\ urlPieces < MaxUrlPieces
          /\ \E f \in UrlPieces : repoUrl' = repoUrl \o f
          /\ urlPieces' = urlPieces + 1
       \/ /\ repoUrl # <<>>
          /\ repoUrl' = <<>>
          /\ urlPieces' = 0
    /\ UNCHANGED <<loading, error, route, createReqs, sent, submits, lastResp>>
    /\ UNCHANGED <<pageVars, reviewVars, viewVars, widgetVars>>

\* a validation that forgets the host test
PassesValidationAnyText(url) == Trim(url) # <<>>

\* the two tests handleSubmit makes before it sends
PassesValidation(url) == Trim(url) # <<>> /\ Includes(url, GithubCom)

\* handleSubmit up to its first await; the submit button is disabled while
\* loading
HandleSubmit ==
    /\ route = HomeRoute
    /\ ~Disabled(loading)
    /\ submits < MaxSubmits
    /\ submits' = submits + 1
    /\ IF Trim(repoUrl) = <<>>
       THEN UNCHANGED <<loading, error, createReqs, sent>>
       ELSE IF ~PassesValidation(repoUrl)
       THEN /\ error' = ValidationError
            /\ UNCHANGED <<loading, createReqs, sent>>
       ELSE /\ error' = ""
            /\ loading' = TRUE
            /\ createReqs' = createReqs \cup {[id |-> sent + 1,
                                               body |-> Trim(repoUrl)]}
            /\ sent' = sent + 1
    /\ UNCHANGED <<repoUrl, urlPieces, route, lastResp>>
    /\ UNCHANGED <<pageVars, reviewVars, viewVars, widgetVars>>

\* a catch block that shows the message as it is
OnCreateFailedBare(message) == [error |-> message, loading |-> FALSE]

\* catch (err): setError(err.message || "Something went wrong"); setLoading(false)
OnCreateFailed(message) ==
    [error   |-> IF message # "" THEN message ELSE "Something went wrong",
     loading |-> FALSE]

\* the create request settles and handleSubmit runs to its end
CreateSettled ==
    /\ \E q \in createReqs :
          /\ createReqs' = createReqs \ {q}
          /\ \E k \in {"ok", "notok", "throw", "badjson"} :
             \E t \in TaskIds :
             \E m \in ThrownMessages :
                LET message == IF k = "notok" THEN "Failed to start generation"
                               ELSE m
                    failed  == OnCreateFailed(message)
                IN  /\ k \in {"ok", "notok"} => m = ""
                    /\ k # "ok" => t = "t1"
                    /\ lastResp' = [kind |-> k,
                                    taskId |-> IF k = "ok" THEN t ELSE "",
                                    message |-> IF k = "ok" THEN "" ELSE message]
                    /\ IF k = "ok"
                       THEN /\ route' = [path |-> "/generate", taskId |-> t]
                            /\ UNCHANGED <<error, loading>>
                       ELSE /\ error' = failed.error
                            /\ loading' = failed.loading
                            /\ UNCHANGED route
    /\ UNCHANGED <<repoUrl, urlPieces, sent, submits>>
    /\ UNCHANGED <<pageVars, reviewVars, viewVars, widgetVars>>

HomeNext ==
    \/ SetRepoUrl
    \/ HandleSubmit
    \/ CreateSettled

(***************************************************************************)
(* AICodeReview: the three patterns of parseSection.                       *)
(***************************************************************************)
None == <<>>

Stars == <<"*", "*">>

\* \s*\/\s*10 at position p
TailAt(line, p) ==
    \E a \in p..Len(line) :
       /\ \A x \in p..(a - 1) : IsSpace(line[x])
       /\ line[a] = "/"
       /\ \E b \in (a + 1)..(Len(line) - 1) :
             /\ \A x \in (a + 1)..(b - 1) : IsSpace(line[x])
             /\ line[b] = "1"
             /\ line[b + 1] = "0"

\* the ends of (\d+) begun at k that let the rest of the pattern match
DigitEnds(line, k) ==
    {e \in k..Len(line) :
        /\ \A x \in k..e : IsDigit(line[x])
        /\ TailAt(line, e + 1)}

\* .*?(\d+)\s*\/\s*10 from position p: the lazy .*? stops at the first start
\* that matches, the greedy \d+ takes the longest run; the digits, or None
FractionFrom(line, p) ==
    LET starts == {k \in p..Len(line) : DigitEnds(line, k) # {}}
    IN  IF starts = {} THEN None
        ELSE LET k == SetMin(starts)
             IN  <<SubSeq(line, k, SetMax(DigitEnds(line, k)))>>

\* line.match(/\*\*(.+?)\*\*.*?(\d+)\s*\/\s*10/): leftmost opening stars,
\* then the shortest title; [title, digits] in a one-element sequence, or None
TitleMatch(line) ==
    LET closers(i) == {j \in (i + 3)..Len(line) :
                          /\ OccursAt(line, Stars, j)
                          /\ FractionFrom(line, j + 2) # None}
        opens == {i \in 1..Len(line) :
                     OccursAt(line, Stars, i) /\ closers(i) # {}}
    IN  IF opens = {} THEN None
        ELSE LET i == SetMin(opens)
                 j == SetMin(closers(i))
             IN  <<[title  |-> SubSeq(line, i + 2, j - 1),
                    digits |-> FractionFrom(line, j + 2)[1]]>>

\* the /i flag, for the letters of "score"
Lower(c) ==
    CASE c = "S" -> "s"
      [] c = "C" -> "c"
      [] c = "O" -> "o"
      [] c = "R" -> "r"
      [] c = "E" -> "e"
      [] OTHER   -> c

\* line.match(/Score.*?(\d+)\s*\/\s*10/i): the digits, or None
ScoreMatch(line) ==
    LET word == <<"s", "c", "o", "r", "e">>
        low  == [x \in 1..Len(line) |-> Lower(line[x])]
        at   == {i \in 1..Len(line) :
                    OccursAt(low, word, i) /\ FractionFrom(line, i + 5) # None}
    IN  IF at = {} THEN None ELSE FractionFrom(line, SetMin(at) + 5)

\* line.match(/^#+\s*(.+)/): greedy #+ and \s* give back what (.+) needs;
\* the captured text, or None
HeadingMatch(line) ==
    LET cuts == {c \in 1..(Len(line) - 1) :
                    \E a \in 1..c :
                       /\ \A x \in 1..a : line[x] = "#"
                       /\ \A x \in (a + 1)..c : IsSpace(line[x])}
        hashes(c) == SetMax({a \in 1..c :
                                /\ \A x \in 1..a : line[x] = "#"
                                /\ \A x \in (a + 1)..c : IsSpace(line[x])})
        best == SetMax({hashes(c) : c \in cuts})
    IN  IF cuts = {} THEN None
        ELSE LET c == SetMax({d \in cuts : hashes(d) = best})
             IN  <<SubSeq(line, c + 1, Len(line))>>

\* t.replace(/\*\*/g, "")
RECURSIVE StripBold(_)
StripBold(t) ==
    IF Len(t) = 0 THEN <<>>
    ELSE IF OccursAt(t, Stars, 1) THEN StripBold(SubSeq(t, 3, Len(t)))
    ELSE <<t[1]>> \o StripBold(SubSeq(t, 2, Len(t)))

DigitValue(c) ==
    CASE c = "0" -> 0 [] c = "1" -> 1 [] c = "2" -> 2 [] c = "3" -> 3
      [] c = "4" -> 4 [] c = "5" -> 5 [] c = "6" -> 6 [] c = "7" -> 7
      [] c = "8" -> 8 [] OTHER -> 9

\* parseInt of a run of digits
RECURSIVE ParseInt(_)
ParseInt(digits) ==
    IF Len(digits) = 0 THEN 0
    ELSE 10 * ParseInt(SubSeq(digits, 1, Len(digits) - 1))
            + DigitValue(digits[Len(digits)])

(***************************************************************************)
(* AICodeReview: parseSection and the render.                              *)
(***************************************************************************)
DefaultTitle == <<"R", "e", "v", "i", "e", "w">>

\* the loop body that goes on after a bold title
LineStepNoBreak(line, acc) ==
    LET t == TitleMatch(line)
        h == HeadingMatch(line)
        g == ScoreMatch(line)
    IN  IF t # None
        THEN [title |-> t[1].title, score |-> <<ParseInt(t[1].digits)>>,
              done |-> FALSE]
        ELSE [title |-> IF h # None /\ acc.title = <<>>
                        THEN StripBold(h[1]) ELSE acc.title,
              score |-> IF g # None THEN <<ParseInt(g[1])>> ELSE acc.score,
              done  |-> FALSE]

\* the body of "for (const line of lines)"; done is the break
LineStep(line, acc) ==
    LET t == TitleMatch(line)
        h == HeadingMatch(line)
        g == ScoreMatch(line)
    IN  IF t # None
        THEN [title |-> t[1].title, score |-> <<ParseInt(t[1].digits)>>,
              done |-> TRUE]
        ELSE [title |-> IF h # None /\ acc.title = <<>>
                        THEN StripBold(h[1]) ELSE acc.title,
              score |-> IF g # None THEN <<ParseInt(g[1])>> ELSE acc.score,
              done  |-> FALSE]

RECURSIVE ParseLoop(_, _, _)
ParseLoop(lines, i, acc) ==
    IF i > Len(lines) \/ acc.done THEN acc
    ELSE ParseLoop(lines, i + 1, LineStep(lines[i], acc))

\* a parser whose score starts at zero
InitialScoreZero == <<0>>

\* let score: number | null = null
InitialScore == None

parseSection(text) ==
    LET lines == Split(Trim(text), <<"\n">>)
        r == ParseLoop(lines, 1, [title |-> DefaultTitle,
                                  score |-> InitialScore, done |-> FALSE])
    IN  [title |-> r.title, score |-> r.score, content |-> Trim(text)]

\* the pieces review texts are made of, and how many make up one review
MaxReviewPieces == 3

BoldEight == <<"*", "*", "T", "*", "*", " ", "8", "/", "1", "0">>

ScoreZero == <<"S", "c", "o", "r", "e", ":", " ", "0", "/", "1", "0">>

ScoreSeven ==
    <<"s", "c", "o", "r", "e", " ", "7", " ", "/", " ", "1", "0", "0">>

HeadingBold == <<"#", " ", "*", "*", "H", "*", "*">>

PlainText == <<"o", "k">>

NewLine == <<"\n">>

Blank == <<" ">>

Delimiter ==
    <<"-", "-", "-", "R", "E", "V", "I", "E", "W", "_", "B", "R", "E", "A",
      "K", "-", "-", "-">>

BoldFifteen ==
    <<"*", "*", "U", "*", "*", " ", "(", "1", "5", "/", "1", "0", ")">>

\* a short scored section with the title c and the score digit d
Scored(c, d) == <<"*", "*", c, "*", "*", d, "/", "1", "0">>

\* six scored sections in one piece
SixScored ==
    Scored("a", "1") \o Delimiter \o Scored("b", "2") \o Delimiter
       \o Scored("c", "3") \o Delimiter \o Scored("d", "4") \o Delimiter
       \o Scored("e", "5") \o Delimiter \o Scored("f", "6")

ReviewPieces ==
    {BoldEight, BoldFifteen, ScoreZero, ScoreSeven, HeadingBold,
     PlainText, NewLine, Blank, Delimiter, SixScored}

\* a filter that keeps every part
KeepsPartAlways(s) == TRUE

\* .filter((s) => s.trim())
KeepsPart(s) == Trim(s) # <<>>

\* const parsed = review.split("---REVIEW_BREAK---").filter(...).map(parseSection)
AICodeReview(text) ==
    LET sections == SelectSeq(Split(text, Delimiter), KeepsPart)
    IN  [k \in 1..Len(sections) |-> parseSection(sections[k])]

\* a test by truthiness, which takes the score 0 for no score
HasScoreTruthy(score) == score # None /\ score[1] # 0

\* score !== null
HasScore(score) == score # None

getScoreColor(score) ==
    IF ~HasScore(score) THEN "#888"
    ELSE IF score[1] >= 8 THEN "#22c55e"
    ELSE IF score[1] >= 6 THEN "#eab308"
    ELSE IF score[1] >= 4 THEN "#f97316"
    ELSE "#ef4444"

\* the emoji, by name
getScoreEmoji(score) ==
    IF ~HasScore(score) THEN "clipboard"
    ELSE IF score[1] >= 9 THEN "trophy"
    ELSE IF score[1] >= 7 THEN "check mark"
    ELSE IF score[1] >= 5 THEN "warning"
    ELSE "rotating light"

DigitChar(d) ==
    CASE d = 0 -> "0" [] d = 1 -> "1" [] d = 2 -> "2" [] d = 3 -> "3"
      [] d = 4 -> "4" [] d = 5 -> "5" [] d = 6 -> "6" [] d = 7 -> "7"
      [] d = 8 -> "8" [] OTHER -> "9"

\* the decimal text JSX puts in place of {score}
RECURSIVE NumberText(_)
NumberText(n) ==
    IF n < 10 THEN <<DigitChar(n)>>
    ELSE NumberText(n \div 10) \o <<DigitChar(n % 10)>>

\* {score}/10
ScoreText(score) == NumberText(score[1]) \o <<"/", "1", "0">>

\* parsed.filter((p) => p.score !== null)
ScoredSections(p) == SelectSeq(p, LAMBDA x : HasScore(x.score))

\* a row of score cards for every review
ShowsScoreCardsAlways(p) == TRUE

\* parsed.length > 1
ShowsScoreCards(p) == Len(p) > 1

\* the score cards: only for more than one section, the first five scored
ScoreCards(p) ==
    IF ShowsScoreCards(p)
    THEN LET f == ScoredSections(p)
             n == IF Len(f) < 5 THEN Len(f) ELSE 5
         IN  [i \in 1..n |-> [emoji |-> getScoreEmoji(f[i].score),
                              color |-> getScoreColor(f[i].score),
                              text  |-> ScoreText(f[i].score),
                              title |-> f[i].title]]
    ELSE <<>>

\* the full list: one details element per section, the first one open;
\* badge is None when the section shows no badge
SectionRows(p) ==
    [i \in 1..Len(p) |->
        [emoji   |-> getScoreEmoji(p[i].score),
         title   |-> p[i].title,
         badge   |-> IF HasScore(p[i].score) THEN ScoreText(p[i].score) ELSE None,
         color   |-> getScoreColor(p[i].score),
         open    |-> i = 1,
         content |-> p[i].content]]

ReviewInit ==
    /\ review = <<>>
    /\ reviewPieces = 0
    /\ parsed = <<>>

\* the page renders AICodeReview with a review one piece longer
SetReview ==
    /\ reviewPieces < MaxReviewPieces
    /\ \E f \in ReviewPieces :
          /\ review' = review \o f
          /\ parsed' = AICodeReview(review \o f)
    /\ reviewPieces' = reviewPieces + 1
    /\ UNCHANGED <<pageVars, homeVars, viewVars, widgetVars>>

\* the page shows another task, whose bundle has no review
ClearReview ==
    /\ review # <<>>
    /\ review' = <<>>
    /\ reviewPieces' = 0
    /\ parsed' = <<>>
    /\ UNCHANGED <<pageVars, homeVars, viewVars, widgetVars>>

ReviewNext ==
    \/ SetReview
    \/ ClearReview

(***************************************************************************)
(* Home: properties.                                                       *)
(***************************************************************************)
\* the input has a character that is not white space and holds "github.com"
C9_Acceptable(url) ==
    /\ \E i \in 1..Len(url) : ~IsSpace(url[i])
    /\ \E i \in 1..Len(url) :
          /\ i + 9 <= Len(url)
          /\ \A x \in 1..10 : url[i + x - 1] = GithubCom[x]

\* C9: handleSubmit sends a create request only for a non-blank input that
\* contains "github.com"; for every other input nothing is sent, nothing is
\* navigated, loading stays false, and a non-blank input gets the validation
\* error.
C9_SubmitValidates ==
    /\ [][(sent' > sent \/ createReqs' \ createReqs # {})
             => (submits' = submits + 1 /\ C9_Acceptable(repoUrl))]_vars
    /\ [][(submits' = submits + 1 /\ C9_Acceptable(repoUrl))
             => (sent' = sent + 1 /\ createReqs' \ createReqs # {} /\ loading')]_vars
    /\ [][(submits' = submits + 1 /\ ~C9_Acceptable(repoUrl))
             => /\ sent' = sent
                /\ createReqs' = createReqs
                /\ route' = route
                /\ ~loading /\ ~loading'
                /\ (\E i \in 1..Len(repoUrl) : ~IsSpace(repoUrl[i]))
                      => error' = ValidationError]_vars

\* a non-blank input without the host was submitted and rejected
C9_Witness ==
    /\ submits > 0
    /\ sent = 0
    /\ error = ValidationError
    /\ ~loading
    /\ ~C9_Acceptable(repoUrl)
    /\ repoUrl # <<>>

\* C10: a create request that fails or is answered non-OK ends with an error
\* message, loading = false and no navigation; navigation happens only on an
\* OK response and goes to /generate/<task_id of that response>.
C10_CreateOutcome ==
    /\ [][(createReqs # {} /\ createReqs' = {} /\ lastResp'.kind # "ok")
             => /\ error' # ""
                /\ ~loading'
                /\ route' = route
                /\ route' = HomeRoute]_vars
    /\ [][route' # route
             => /\ createReqs # {} /\ createReqs' = {}
                /\ lastResp'.kind = "ok"
                /\ route' = [path |-> "/generate", taskId |-> lastResp'.taskId]]_vars

\* a fetch was rejected with an empty message, and the page is ready for the
\* next submission
C10_Witness ==
    /\ lastResp.kind = "throw"
    /\ lastResp.message = ""
    /\ error = "Something went wrong"
    /\ ~loading
    /\ route = HomeRoute
    /\ createReqs = {}

\* C22: at most one create request is in flight; loading is true exactly
\* from the sending of a request until it fails, and stays true after a
\* success; the input and the button are disabled exactly while loading;
\* loading implies an empty error message.
C22_OneCreateInFlight ==
    /\ Cardinality(createReqs) <= 1
    /\ loading <=> (createReqs # {} \/ route # HomeRoute)
    /\ Disabled(loading) <=> loading
    /\ (ENABLED SetRepoUrl \/ ENABLED HandleSubmit) => ~loading
    /\ loading => error = ""

\* a second request is waiting for its reply after the first one failed
C22_Witness ==
    /\ loading
    /\ sent = 2
    /\ Cardinality(createReqs) = 1
    /\ lastResp.kind \in {"notok", "throw", "badjson"}

(***************************************************************************)
(* AICodeReview: properties.                                               *)
(***************************************************************************)
\* the lines of the k-th section
LinesOf(k) == Split(parsed[k].content, <<"\n">>)

\* the index of the first line that matches the bold-title pattern (0: none)
FirstBold(lines) ==
    LET bold == {i \in 1..Len(lines) : TitleMatch(lines[i]) # None}
    IN  IF bold = {} THEN 0 ELSE SetMin(bold)

\* the lines the loop looks at: up to the first bold-title line
Examined(lines) ==
    IF FirstBold(lines) = 0 THEN 1..Len(lines) ELSE 1..FirstBold(lines)

\* the fraction a matching line carries
NumberOf(line) ==
    IF TitleMatch(line) # None THEN ParseInt(TitleMatch(line)[1].digits)
    ELSE ParseInt(ScoreMatch(line)[1])

Matches(line) == TitleMatch(line) # None \/ ScoreMatch(line) # None

\* '#', '##', ... followed by text: where the text starts (0: no heading)
HeadingTextStart(line) ==
    LET starts == {c \in 2..Len(line) :
                      /\ line[1] = "#"
                      /\ ~IsSpace(line[c]) /\ line[c] # "#"
                      /\ \A x \in 1..(c - 1) : line[x] = "#" \/ IsSpace(line[x])}
    IN  IF starts = {} THEN 0 ELSE SetMin(starts)

\* C5: a part with a heading line and no bold-title line gets the text of
\* its first heading line, without "**", as title.
C5_TitleFromHeading ==
    \A k \in 1..Len(parsed) :
       LET lines == LinesOf(k)
           heads == {i \in 1..Len(lines) : HeadingTextStart(lines[i]) # 0}
       IN  (heads # {} /\ FirstBold(lines) = 0)
              => LET l == lines[SetMin(heads)]
                 IN  parsed[k].title
                        = StripBold(SubSeq(l, HeadingTextStart(l), Len(l)))

\* C6: the score is null exactly when no examined line matches a pattern; a
\* matched 0/10 gives the number 0 and nothing else gives 0.
C6_NullIffNoMatch ==
    \A k \in 1..Len(parsed) :
       LET lines == LinesOf(k)
           hits  == {i \in Examined(lines) : Matches(lines[i])}
       IN  /\ parsed[k].score = None <=> hits = {}
           /\ parsed[k].score # None
                 => /\ Len(parsed[k].score) = 1
                    /\ parsed[k].score[1] \in Nat
           /\ parsed[k].score = <<0>>
                 => \E i \in hits : NumberOf(lines[i]) = 0
           /\ (hits # {} /\ \A i \in hits : NumberOf(lines[i]) = 0)
                 => parsed[k].score = <<0>>

\* one section was scored 0/10 and another has no score
C6_Witness ==
    \E k, j \in 1..Len(parsed) :
       /\ parsed[k].score = <<0>>
       /\ parsed[j].score = None

\* C8: the first bold-title line gives title and score and ends the scan;
\* without one, the last "Score ... n/10" line gives the score.
C8_PatternPriority ==
    \A k \in 1..Len(parsed) :
       LET lines  == LinesOf(k)
           b      == FirstBold(lines)
           scored == {i \in 1..Len(lines) : ScoreMatch(lines[i]) # None}
       IN  IF b # 0
           THEN /\ parsed[k].title = TitleMatch(lines[b])[1].title
                /\ parsed[k].score = <<ParseInt(TitleMatch(lines[b])[1].digits)>>
           ELSE scored # {}
                   => parsed[k].score
                         = <<ParseInt(ScoreMatch(lines[SetMax(scored)])[1])>>

\* a bold-title line stands between two "Score" lines with other fractions
C8_Witness ==
    \E k \in 1..Len(parsed) :
       LET lines == LinesOf(k)
           b     == FirstBold(lines)
       IN  /\ b # 0
           /\ \E i \in 1..Len(lines) :
                 /\ i # b
                 /\ ScoreMatch(lines[i]) # None
                 /\ NumberOf(lines[i]) # NumberOf(lines[b])

RECURSIVE Join(_, _)
Join(parts, d) ==
    IF Len(parts) = 1 THEN parts[1]
    ELSE parts[1] \o d \o Join(Tail(parts), d)

IsBlank(s) == \A i \in 1..Len(s) : IsSpace(s[i])

\* c is s without its leading and trailing white space
IsTrimOf(c, s) ==
    /\ c # <<>>
    /\ ~IsSpace(c[1]) /\ ~IsSpace(c[Len(c)])
    /\ \E i \in 1..Len(s) :
          /\ OccursAt(s, c, i)
          /\ \A x \in 1..(i - 1) : IsSpace(s[x])
          /\ \A x \in (i + Len(c))..Len(s) : IsSpace(s[x])

\* C7 as amended: the sections are, in order, the non-blank parts between
\* the delimiters, each trimmed; a non-blank review without the delimiter
\* gives one section, a review of delimiters and white space gives none.
C7_SectionsAreParts ==
    review # <<>> =>
       LET parts == Split(review, Delimiter)
           kept  == {p \in 1..Len(parts) : ~IsBlank(parts[p])}
           nth(k) == CHOOSE p \in kept :
                        Cardinality({q \in kept : q <= p}) = k
       IN  /\ Join(parts, Delimiter) = review
           /\ \A p \in 1..Len(parts) : ~Includes(parts[p], Delimiter)
           /\ Len(parsed) = Cardinality(kept)
           /\ \A k \in 1..Len(parsed) : IsTrimOf(parsed[k].content, parts[nth(k)])
           /\ (~Includes(review, Delimiter) /\ ~IsBlank(review))
                 => Len(parsed) = 1
           /\ kept = {} => Len(parsed) = 0

\* two sections around a delimiter
C7_Witness ==
    /\ Includes(review, Delimiter)
    /\ Len(parsed) = 2
    /\ parsed[1].content # parsed[2].content

\* C7 as stated: every review without the delimiter gives exactly one section.
C7_NoDelimiterOneSection ==
    (review # <<>> /\ ~Includes(review, Delimiter)) => Len(parsed) = 1

\* C15: a section with the score 0 shows the badge "0/10" in the red colour
\* with the alarm emoji and passes the score-card filter; a section with no
\* score shows no badge, the grey "#888" and the neutral emoji, and has no
\* score card.
C15_ZeroIsAScore ==
    \A i \in 1..Len(parsed) :
       LET sc  == parsed[i].score
           row == SectionRows(parsed)[i]
       IN  /\ sc = <<0>> =>
                /\ row.badge = <<"0", "/", "1", "0">>
                /\ row.color = "#ef4444"
                /\ row.emoji = "rotating light"
                /\ \E j \in 1..Len(ScoredSections(parsed)) :
                      ScoredSections(parsed)[j] = parsed[i]
                /\ (Len(parsed) > 1 /\ Len(ScoredSections(parsed)) <= 5) =>
                      \E c \in 1..Len(ScoreCards(parsed)) :
                         /\ ScoreCards(parsed)[c].text = <<"0", "/", "1", "0">>
                         /\ ScoreCards(parsed)[c].title = parsed[i].title
                         /\ ScoreCards(parsed)[c].color = "#ef4444"
                         /\ ScoreCards(parsed)[c].emoji = "rotating light"
           /\ sc = None =>
                /\ row.badge = None
                /\ row.color = "#888"
                /\ row.emoji = "clipboard"
                /\ \A j \in 1..Len(ScoredSections(parsed)) :
                      ScoredSections(parsed)[j] # parsed[i]
                /\ Len(ScoreCards(parsed)) <= Len(parsed) - 1

\* a review of two sections, one scored 0 and one without a score
C15_Witness ==
    /\ Len(parsed) = 2
    /\ parsed[1].score = <<0>>
    /\ parsed[2].score = None
    /\ Len(ScoreCards(parsed)) = 1

\* C16: every score parseSection returns is an integer from 0 to 10.
C16_ScoreInRange ==
    \A i \in 1..Len(parsed) :
       parsed[i].score # None => parsed[i].score[1] \in 0..10

\* the position in parsed of the k-th section that has a score
KthScored(k) ==
    CHOOSE i \in 1..Len(parsed) :
       /\ parsed[i].score # None
       /\ Cardinality({j \in 1..i : parsed[j].score # None}) = k

\* C24: the score-card row is shown only for two or more parsed sections;
\* it holds, in the original order, the first five sections with a score
\* (or fewer) and no section without a score; every parsed section appears
\* in the full list, only the first one expanded.
C24_ScoreCardRow ==
    LET cards   == ScoreCards(parsed)
        rows    == SectionRows(parsed)
        nScored == Cardinality({i \in 1..Len(parsed) : parsed[i].score # None})
    IN  /\ ShowsScoreCards(parsed) => Len(parsed) >= 2
        /\ Len(parsed) < 2 => cards = <<>>
        /\ Len(parsed) >= 2 => Len(cards) = IF nScored < 5 THEN nScored ELSE 5
        /\ \A k \in 1..Len(cards) :
              /\ cards[k].title = parsed[KthScored(k)].title
              /\ cards[k].text = ScoreText(parsed[KthScored(k)].score)
        /\ Len(rows) = Len(parsed)
        /\ \A i \in 1..Len(rows) :
              /\ rows[i].title = parsed[i].title
              /\ rows[i].content = parsed[i].content
              /\ rows[i].open <=> i = 1

\* seven sections, six of them scored, the first one without a score: five
\* cards, the sixth scored section left out
C24_Witness ==
    /\ Len(parsed) = 7
    /\ parsed[1].score = None
    /\ Len(ScoreCards(parsed)) = 5
    /\ ScoreCards(parsed)[1].title = <<"a">>
    /\ ScoreCards(parsed)[5].title = <<"e">>

\* C11: in the documents view a tab whose field is absent, null or empty
\* shows an explicit placeholder, and no tab shows an empty panel.
C11_PlaceholderForMissing ==
    DocumentsShown =>
       /\ bundle[FieldOf(activeTab)] # "value"
             => Panel(activeTab, bundle).kind = "placeholder"
       /\ Panel(activeTab, bundle).kind # "nothing"

\* C14: a call of copyMarkdown writes docs.full_markdown to the clipboard and
\* sets copied exactly when docs is loaded with a non-empty full_markdown,
\* and changes nothing otherwise; it never changes status, docs or
\* activeTab; after a copy, copied returns to false.
C14_CopyMarkdown ==
    /\ [][clicks' # clicks =>
            /\ IF docs # NULL /\ bundle["full_markdown"] = "value"
               THEN /\ clipboard' = "full_markdown"
                    /\ copied'
               ELSE /\ clipboard' = clipboard
                    /\ copied' = copied
                    /\ copyTimers' = copyTimers
            /\ status' = status
            /\ docs' = docs
            /\ activeTab' = activeTab]_vars
    /\ [][(copied' /\ ~copied) => clicks' # clicks]_vars
    /\ (copied ~> ~copied)

\* the markdown was copied twice and the label is back
C14_Witness ==
    /\ clicks = 2
    /\ clipboard = "full_markdown"
    /\ ~copied
    /\ copyTimers = 0

\* the page once the result of the task has been loaded
PageLoaded ==
    /\ taskId = "t1"
    /\ mounted = TRUE
    /\ status = [status |-> "complete", progress |-> 100, message |-> "Done"]
    /\ docs = Bundle
    /\ effectInterval = 0
    /\ intervals = {}
    /\ nextInterval = 2
    /\ statusReqs = {}
    /\ resultReqs = {}
    /\ sentStatus = 1
    /\ issued = <<[kind |-> "ok", status |-> "complete"]>>
    /\ docsWrites = 1
    /\ server = [status |-> "complete", progress |-> 100]

\* the widgets as they are mounted next to the page
WidgetInit ==
    /\ MermaidInit /\ chart = "" /\ ComplexityInit /\ GaugeInit
    /\ StarfieldInit /\ viewport = "small"

Init ==
    /\ PageInit /\ HomeInit /\ ReviewInit /\ ViewInit /\ bundle = CompleteBundle
    /\ WidgetInit

Next == PageNext

Spec == Init /\ [][Next]_vars

\* the landing page and the review are checked next to one task page
OneTaskInit == Init /\ taskId = "t1"

HomeSpec == OneTaskInit /\ [][HomeNext]_vars

ReviewSpec == OneTaskInit /\ [][ReviewNext]_vars

\* the documents view starts from the loaded page, with any bundle;
\* the event loop runs every timer that is due
LoadedInit ==
    /\ PageLoaded /\ HomeInit /\ ReviewInit /\ ViewInit /\ bundle \in Bundles
    /\ WidgetInit

ViewSpec == LoadedInit /\ [][ViewNext]_vars /\ WF_vars(CopyTimeout)

\* one diagram of the diagrams tab, with any first chart
DiagramInit ==
    /\ PageLoaded /\ HomeInit /\ ReviewInit /\ ViewInit /\ bundle = CompleteBundle
    /\ MermaidInit
    /\ ComplexityInit
    /\ GaugeInit
    /\ StarfieldInit /\ viewport = "small"

MermaidSpec == DiagramInit /\ [][MermaidNext]_vars

ComplexitySpec == Init /\ [][ComplexityNext]_vars

GaugeSpec == Init /\ [][GaugeNext]_vars

StarfieldSpec == Init /\ [][StarfieldNext]_vars
====
